---- MODULE Spec2Model ----
(***************************************************************************)
(* Verification model of the drizzle multi-tenant demo.                    *)
(*                                                                         *)
(* Part A: row-level-security strategy (db-rls): withTenant, the tenant    *)
(*         policies of users / stacks and the pooled restricted client.    *)
(* Part B: schema-per-tenant strategy (db): validateSchemaName,            *)
(*         applyMigrations, createTenantSchemaWithMigrations and the       *)
(*         operator scripts built on them.                                 *)
(***************************************************************************)
EXTENDS Integers, Sequences, FiniteSets, TLC

(***************************************************************************)
(* Characters and strings. A string is a sequence of one-character strings *)
(* so that regular expressions, length checks and case folding can be      *)
(* computed character by character as the code does.                       *)
(***************************************************************************)
LowerSeq ==
    <<"a","b","c","d","e","f","g","h","i","j","k","l","m",
      "n","o","p","q","r","s","t","u","v","w","x","y","z">>

UpperSeq ==
    <<"A","B","C","D","E","F","G","H","I","J","K","L","M",
      "N","O","P","Q","R","S","T","U","V","W","X","Y","Z">>

DigitChars ==
    {"0","1","2","3","4","5","6","7","8","9"}

LowerChars ==
    {LowerSeq[i] : i \in 1..26}

UpperChars ==
    {UpperSeq[i] : i \in 1..26}

\* String.prototype.toLowerCase on one character (ASCII range).
ToLowerChar(c) ==
    IF c \in UpperChars
    THEN LowerSeq[CHOOSE i \in 1..26 : UpperSeq[i] = c]
    ELSE c

\* String.prototype.toLowerCase.
ToLowerCase(s) ==
    [i \in 1..Len(s) |-> ToLowerChar(s[i])]

\* A string of n copies of the character c.
Rep(c, n) ==
    [i \in 1..n |-> c]

(***************************************************************************)
(* Part A.  UUID_REGEX and the tenant tokens.                              *)
(***************************************************************************)
HexLower ==
    {"0","1","2","3","4","5","6","7","8","9","a","b","c","d","e","f"}

\* The regular expression, one character class per position; the anchors
\* ^ and $ make the match cover the whole string.
UuidPattern ==
    Rep(HexLower, 8) \o <<{"-"}>> \o Rep(HexLower, 4) \o <<{"-"}>> \o
    <<{"4"}>> \o Rep(HexLower, 3) \o <<{"-"}>> \o
    <<{"8","9","a","b"}>> \o Rep(HexLower, 3) \o <<{"-"}>> \o Rep(HexLower, 12)

\* Variant: any hex digit accepted for the version and variant nibbles.
UUID_REGEX_AnyNibble(s) ==
    /\ Len(s) = Len(UuidPattern)
    /\ \A i \in 1..Len(s) :
          IF i \in {15, 20}
          THEN ToLowerChar(s[i]) \in HexLower
          ELSE ToLowerChar(s[i]) \in UuidPattern[i]

\* UUID_REGEX.test(tenantId); the i flag folds the case of the subject.
UUID_REGEX(s) ==
    /\ Len(s) = Len(UuidPattern)
    /\ \A i \in 1..Len(s) : ToLowerChar(s[i]) \in UuidPattern[i]

\* A well-formed token whose digits are d and whose variant nibble is v.
MkToken(d, v) ==
    Rep(d, 8) \o <<"-">> \o Rep(d, 4) \o <<"-", "4">> \o Rep(d, 3) \o
    <<"-", v>> \o Rep(d, 3) \o <<"-">> \o Rep(d, 12)

TokA ==
    MkToken("1", "8")

TokB ==
    MkToken("a", "b")

\* The same UUID as TokB, written in upper case.
TokBUpper ==
    MkToken("A", "B")

ValidTokens ==
    {TokA, TokBUpper}

\* The cast current_setting('app.tenant_id')::uuid : the 128-bit value of a
\* textual UUID, represented by its canonical lower-case text.
CastUuid(s) ==
    ToLowerCase(s)

HyphenPos ==
    {9, 14, 19, 24}

VersionPos ==
    15

VariantPos ==
    20

\* Malformed tokens, built from a well-formed one by one deviation each.
WrongCharset ==
    {[TokA EXCEPT ![1] = "g"], [TokB EXCEPT ![36] = "'"]}

MissingHyphen ==
    {[TokA EXCEPT ![9] = "0"]}

WrongNibble ==
    {[TokA EXCEPT ![VersionPos] = "1"], [TokB EXCEPT ![VariantPos] = "c"]}

WrongLength ==
    {<<>>, SubSeq(TokA, 1, 35), TokB \o <<"'", ";">>}

MalformedTokens ==
    WrongCharset \cup MissingHyphen \cup WrongNibble \cup WrongLength

Tokens ==
    ValidTokens \cup MalformedTokens

(***************************************************************************)
(* Part A.  State of the row-level-security deployment.                    *)
(***************************************************************************)
\* Invocations of withTenant followed in one behaviour; they may overlap in
\* any way.
NumCallers ==
    2

\* Connections of the restricted pool that the model follows.
MaxConns ==
    2

\* Statements the work callback issues in one invocation.
MaxStmts ==
    1

\* Rows inserted in one behaviour.
MaxRows ==
    1

Callers ==
    1..NumCallers

Conns ==
    1..MaxConns

\* The RLS-protected tables.
RlsTables ==
    {"users", "stacks"}

\* organizations.id of the two tenants (master table, no RLS).
Orgs ==
    {CastUuid(TokA), CastUuid(TokB)}

\* Placeholder where no tenantId is held (distinct from every string).
NoToken ==
    <<"none">>

\* No select has returned yet.
NoRead ==
    [tbl |-> "", got |-> {}]

NoSetting ==
    [val |-> <<>>, local |-> FALSE, set |-> FALSE]

\* No invocation has returned yet.
NoResult ==
    [arg |-> NoToken, outcome |-> "", err |-> "", wrote |-> {}, conn |-> 0,
     issued |-> FALSE]

VARIABLES
    pc,          \* position of each invocation inside withTenant
    arg,         \* the tenantId argument of the running invocation
    wrote,       \* ids of the rows the running invocation has inserted
    conn,        \* connection reserved by the transaction, 0 if none
    log,         \* statements the invocation has issued, in order
    lastRead,    \* rows returned by the last select of the invocation
    last,        \* what the invocation that returned last gave its caller
    connOwner,   \* caller holding each pooled connection, 0 when idle
    connSetting, \* app.tenant_id on each connection
    pending,     \* uncommitted rows of the transaction on each connection
    rows,        \* committed rows of users and stacks
    nextRow      \* next row id

varsA ==
    <<pc, arg, wrote, conn, log, lastRead, last,
      connOwner, connSetting, pending, rows, nextRow>>

\* State of the schema-per-tenant deployment (Part B) and of one call of
\* validateSchemaName (Part N); withTenant touches none of it.
VARIABLES
    engine,        \* the namespaces of the database engine
    schemaTracker, \* rows (names) of public.schema_tracker, oldest first
    journal,       \* entries of db/migrations/tenant/meta/_journal.json
    folder,        \* files present under db/migrations/tenant
    run,           \* the command that is running, and its locals
    parked,        \* a second command, started but not on the processor
    result,        \* how the last command ended (until the next starts)
    schemaName,    \* argument of validateSchemaName
    verdict        \* what validateSchemaName did with it

varsB ==
    <<engine, schemaTracker, journal, folder, run, parked, result>>

varsN ==
    <<schemaName, verdict>>

vars ==
    <<varsA, varsB, varsN>>

InitA ==
    /\ pc = [p \in Callers |-> "idle"]
    /\ arg = [p \in Callers |-> NoToken]
    /\ wrote = [p \in Callers |-> {}]
    /\ conn = [p \in Callers |-> 0]
    /\ log = [p \in Callers |-> <<>>]
    /\ lastRead = [p \in Callers |-> NoRead]
    /\ last = NoResult
    /\ connOwner = [c \in Conns |-> 0]
    /\ connSetting = [c \in Conns |-> NoSetting]
    /\ pending = [c \in Conns |-> {}]
    /\ rows = {}
    /\ nextRow = 1

\* Variant: SET app.tenant_id = '<tenantId>' (session scope).
SetSessionTenant(tenantId) ==
    [val |-> tenantId, local |-> FALSE, set |-> TRUE]

\* SET LOCAL app.tenant_id = '<tenantId>' : the value lasts until the end of
\* the current transaction.
SetLocalTenant(tenantId) ==
    [val |-> tenantId, local |-> TRUE, set |-> TRUE]

\* What the engine keeps of a setting when the transaction ends (commit or
\* rollback): a transaction-local value is reverted.
AtTransactionEnd(s) ==
    IF s.local THEN NoSetting ELSE s

\* Variant: row security not enforced on the table.
TenantPolicyOff(organizationId, setting) ==
    TRUE

\* users_tenant_policy / stacks_tenant_policy, USING and WITH CHECK:
\* organization_id = current_setting('app.tenant_id')::uuid
TenantPolicy(organizationId, setting) ==
    setting.set /\ organizationId = CastUuid(setting.val)

\* tx.select().from(table) on connection c: committed rows and the rows of
\* the transaction itself, filtered by the USING clause.
SelectFrom(t, c) ==
    {r \in rows \cup pending[c] :
        r.tbl = t /\ TenantPolicy(r.org, connSetting[c])}

\* The promise of withTenant settles: the caller gets the outcome and the
\* invocation's frame is gone.
Settle(p, tok, out, e, lg) ==
    /\ last' = [arg |-> tok, outcome |-> out, err |-> e,
                wrote |-> wrote[p], conn |-> conn[p], issued |-> lg # <<>>]
    /\ pc' = [pc EXCEPT ![p] = "done"]
    /\ arg' = [arg EXCEPT ![p] = NoToken]
    /\ wrote' = [wrote EXCEPT ![p] = {}]
    /\ conn' = [conn EXCEPT ![p] = 0]
    /\ log' = [log EXCEPT ![p] = <<>>]
    /\ lastRead' = [lastRead EXCEPT ![p] = NoRead]

\* The connection goes back to the pool when the transaction has ended.
Release(p) ==
    /\ connSetting' = [connSetting EXCEPT
                         ![conn[p]] = AtTransactionEnd(connSetting[conn[p]])]
    /\ connOwner' = [connOwner EXCEPT ![conn[p]] = 0]
    /\ pending' = [pending EXCEPT ![conn[p]] = {}]

\* Rows that reach the table when the transaction of caller p commits.
CommittedBy(p) ==
    pending[conn[p]]

\* Variant: the rows of a failed transaction are kept.
RolledBackKeeps(p) ==
    pending[conn[p]]

\* Rows that reach the table when the transaction of caller p rolls back.
RolledBackBy(p) ==
    {}

\* The transaction callback rejected with error e: appDb.transaction issues
\* ROLLBACK, gives the connection back and rethrows e to the caller.
Rollback(p, e, lg) ==
    /\ rows' = rows \cup RolledBackBy(p)
    /\ Release(p)
    /\ Settle(p, arg[p], e, e, Append(lg, "ROLLBACK"))

\* Variant: the callback of appDb.transaction starts with operation(tx).
OperationFirst ==
    "work"

\* The callback of appDb.transaction starts with the SET LOCAL statement.
TransactionCallback ==
    "setlocal"

\* withTenant, line 545-549: the token is checked before anything else; a
\* token that fails the test makes the call throw at once, any other makes
\* appDb.transaction reserve an idle pooled connection and BEGIN.
\* Invocations are numbered in the order in which they are made, and the
\* pool hands out its idle connections in a fixed order (the lowest-numbered
\* idle one): the pool of part_000 line 23-26 has no notion of affinity.
Call(p, tok) ==
    /\ pc[p] = "idle"
    /\ \A q \in Callers : q < p => pc[q] # "idle"
    /\ IF UUID_REGEX(tok)
       THEN \E c \in Conns :
              /\ connOwner[c] = 0
              /\ \A d \in Conns : d < c => connOwner[d] # 0
              /\ connOwner' = [connOwner EXCEPT ![c] = p]
              /\ conn' = [conn EXCEPT ![p] = c]
              /\ log' = [log EXCEPT ![p] = <<"BEGIN">>]
              /\ pc' = [pc EXCEPT ![p] = TransactionCallback]
              /\ arg' = [arg EXCEPT ![p] = tok]
              /\ UNCHANGED <<wrote, lastRead, last>>
       ELSE /\ Settle(p, tok, "InvalidTenantId", "InvalidTenantId", <<>>)
            /\ UNCHANGED connOwner
    /\ UNCHANGED <<connSetting, pending, rows, nextRow>>
    /\ UNCHANGED <<varsB, varsN>>

\* tx.execute(sql.raw(`SET LOCAL app.tenant_id = '${tenantId}'`))
SetLocal(p) ==
    /\ pc[p] = "setlocal"
    /\ connSetting' = [connSetting EXCEPT ![conn[p]] = SetLocalTenant(arg[p])]
    /\ log' = [log EXCEPT ![p] = Append(@, "SET LOCAL")]
    /\ pc' = [pc EXCEPT ![p] = "work"]
    /\ UNCHANGED <<arg, wrote, conn, lastRead, last, connOwner, pending,
                   rows, nextRow>>
    /\ UNCHANGED <<varsB, varsN>>

\* The SET LOCAL statement is rejected by the engine or the link; the
\* callback of withTenant is not reached.
SetLocalFail(p) ==
    /\ pc[p] = "setlocal"
    /\ Rollback(p, "SetLocalError", Append(log[p], "SET LOCAL"))
    /\ UNCHANGED nextRow
    /\ UNCHANGED <<varsB, varsN>>

\* operation(tx) inserts a row of table t with organization_id o; the WITH
\* CHECK clause rejects a row of another tenant and the error leaves the
\* callback.
OpInsert(p, t, o) ==
    /\ pc[p] = "work"
    /\ Len(log[p]) < 2 + MaxStmts
    /\ nextRow <= MaxRows
    /\ IF TenantPolicy(o, connSetting[conn[p]])
       THEN /\ pending' = [pending EXCEPT ![conn[p]] = @ \cup
                    {[id |-> nextRow, tbl |-> t, org |-> o,
                      scope |-> CastUuid(arg[p])]}]
            /\ wrote' = [wrote EXCEPT ![p] = @ \cup {nextRow}]
            /\ nextRow' = nextRow + 1
            /\ log' = [log EXCEPT ![p] = Append(@, "STMT")]
            /\ lastRead' = [lastRead EXCEPT ![p] = NoRead]
            /\ UNCHANGED <<pc, arg, conn, last, connOwner, connSetting,
                           rows>>
       ELSE /\ Rollback(p, "RlsViolation", Append(log[p], "STMT"))
            /\ UNCHANGED nextRow
    /\ UNCHANGED <<varsB, varsN>>

\* operation(tx) reads table t.
OpSelect(p, t) ==
    /\ pc[p] = "work"
    /\ Len(log[p]) < 2 + MaxStmts
    /\ log' = [log EXCEPT ![p] = Append(@, "STMT")]
    /\ lastRead' = [lastRead EXCEPT ![p] =
                        [tbl |-> t, got |-> SelectFrom(t, conn[p])]]
    /\ UNCHANGED <<pc, arg, wrote, conn, last, connOwner, connSetting,
                   pending, rows, nextRow>>
    /\ UNCHANGED <<varsB, varsN>>

\* operation(tx) throws.
OpRaise(p) ==
    /\ pc[p] = "work"
    /\ Rollback(p, "WorkError", log[p])
    /\ UNCHANGED nextRow
    /\ UNCHANGED <<varsB, varsN>>

\* operation(tx) resolves: COMMIT, and withTenant resolves.
Commit(p) ==
    /\ pc[p] = "work"
    /\ rows' = rows \cup CommittedBy(p)
    /\ Release(p)
    /\ Settle(p, arg[p], "ok", "", Append(log[p], "COMMIT"))
    /\ UNCHANGED nextRow
    /\ UNCHANGED <<varsB, varsN>>

\* operation(tx) resolves but COMMIT is rejected: nothing is made durable,
\* and the engine's error leaves withTenant as it is.
CommitFail(p) ==
    /\ pc[p] = "work"
    /\ Release(p)
    /\ Settle(p, arg[p], "CommitError", "CommitError",
              Append(log[p], "COMMIT"))
    /\ UNCHANGED <<rows, nextRow>>
    /\ UNCHANGED <<varsB, varsN>>

NextA ==
    \/ \E p \in Callers, tok \in Tokens : Call(p, tok)
    \/ \E p \in Callers : SetLocal(p)
    \/ \E p \in Callers : SetLocalFail(p)
    \/ \E p \in Callers, t \in RlsTables, o \in Orgs : OpInsert(p, t, o)
    \/ \E p \in Callers, t \in RlsTables : OpSelect(p, t)
    \/ \E p \in Callers : OpRaise(p)
    \/ \E p \in Callers : Commit(p)
    \/ \E p \in Callers : CommitFail(p)

(***************************************************************************)
(* Part A.  Properties.                                                    *)
(***************************************************************************)
\* The tenant a token names.
TenantOf(tok) ==
    CastUuid(tok)

\* C1: a select performed by a withTenant invocation for tenant B never
\* returns a row inserted under another tenant A, and returns every
\* committed row of the table that was inserted under B.
C1_TenantIsolation ==
    [][\A p \in Callers :
         (log'[p] # log[p] /\ lastRead'[p] # NoRead) =>
            /\ \A r \in lastRead'[p].got : r.scope = TenantOf(arg[p])
            /\ \A r \in rows :
                  (r.tbl = lastRead'[p].tbl /\ r.scope = TenantOf(arg[p]))
                     => r \in lastRead'[p].got]_varsA

\* A select has run under one tenant while the table held a committed row
\* of another tenant.
C1_Witness ==
    \E p \in Callers :
        /\ lastRead[p] # NoRead
        /\ \E r \in rows :
              r.tbl = lastRead[p].tbl /\ r.scope # TenantOf(arg[p])

\* Positions of withTenant between BEGIN and COMMIT / ROLLBACK.
InTransaction ==
    {"setlocal", "work"}

\* C2: an idle pooled connection carries no tenant identity, and a
\* transaction that has set its identity runs alone on its connection with
\* the identity of its own invocation.
C2_IdentityBoundToTransaction ==
    /\ \A c \in Conns : connOwner[c] = 0 => ~connSetting[c].set
    /\ \A p \in Callers :
          pc[p] = "work" =>
             /\ conn[p] # 0
             /\ connOwner[conn[p]] = p
             /\ connSetting[conn[p]].set
             /\ connSetting[conn[p]].val = arg[p]
    /\ \A p, q \in Callers :
          (p # q /\ pc[p] \in InTransaction /\ pc[q] \in InTransaction)
             => conn[p] # conn[q]

\* A transaction runs on the connection on which a committed transaction of
\* another tenant has just ended.
C2_Witness ==
    \E p \in Callers :
        /\ pc[p] = "work"
        /\ last.outcome = "ok"
        /\ last.conn = conn[p]
        /\ TenantOf(last.arg) # TenantOf(arg[p])

\* C3: a malformed token never gets past the check: the call that carries
\* it settles at once with the invalid-tenantId error, without a connection
\* and without a statement, and leaves the pool and the tables as they were.
C3_MalformedRejected ==
    [][\A p \in Callers :
         (pc[p] = "idle" /\ pc'[p] # "idle") =>
            IF pc'[p] = "done"
            THEN /\ last'.outcome = "InvalidTenantId"
                 /\ last'.conn = 0
                 /\ ~last'.issued
                 /\ UNCHANGED <<connOwner, connSetting, pending, rows,
                                nextRow>>
            ELSE arg'[p] \notin MalformedTokens]_varsA

\* A malformed token has been rejected while the tables hold data.
C3_Witness ==
    /\ last.arg \in MalformedTokens
    /\ last.outcome = "InvalidTenantId"
    /\ rows # {}

\* C4: when the callback has thrown, the invocation ends with that error
\* and none of the rows it inserted is committed.
C4_WorkFailureRollsBack ==
    last.err \in {"WorkError", "RlsViolation"} =>
        /\ last.outcome = last.err
        /\ \A r \in rows : r.id \notin last.wrote
        /\ connOwner[last.conn] = 0 => pending[last.conn] = {}

\* The callback inserted a row and then threw.
C4_Witness ==
    last.err = "WorkError" /\ last.wrote # {}

\* C21: a statement of the callback is issued only by an invocation whose
\* transaction has begun and has completed SET LOCAL as its first
\* statement, on the connection the transaction holds from BEGIN on, with
\* the setting in effect; an invocation whose SET LOCAL fails settles with
\* that error without a statement of the callback.
C21_SetLocalBeforeWork ==
    [][\A p \in Callers :
          /\ (log'[p] # log[p] /\ log'[p] # <<>>
                 /\ log'[p][Len(log'[p])] = "STMT") =>
                /\ Len(log[p]) >= 2
                /\ log[p][1] = "BEGIN"
                /\ log[p][2] = "SET LOCAL"
                /\ conn[p] # 0
                /\ connOwner[conn[p]] = p
                /\ connSetting[conn[p]] = SetLocalTenant(arg[p])
          /\ (conn[p] # 0 /\ pc'[p] # "done") => conn'[p] = conn[p]
          /\ (pc[p] = "setlocal" /\ pc'[p] = "done") =>
                /\ last'.err = "SetLocalError"
                /\ last'.wrote = {}
                /\ log[p] = <<"BEGIN">>
          /\ (pc[p] = "setlocal" /\ pc'[p] = "work") =>
                /\ log'[p] = <<"BEGIN", "SET LOCAL">>
                /\ connSetting'[conn[p]] = SetLocalTenant(arg[p])]_vars

\* The callback has issued its first statement.
C21_Witness ==
    \E p \in Callers : log[p] = <<"BEGIN", "SET LOCAL", "STMT">>

\* The class of the error withTenant rejects with.  withTenant constructs
\* one error itself (new Error for a tenantId that is not a UUID) and passes
\* on every other as it was thrown: the driver's error for a statement or
\* a COMMIT the engine rejects, and what the callback threw.
ErrorClass(err) ==
    CASE err = "InvalidTenantId" -> "Error"
      [] err = "WorkError" -> "Error"
      [] err \in {"SetLocalError", "RlsViolation", "CommitError"}
            -> "PostgresError"
      [] OTHER -> "none"

\* The errors of a failure of the work itself.
WorkFailures ==
    {"WorkError", "RlsViolation"}

\* C20: when the commit fails after the callback succeeded, the class of
\* the error the caller gets is not a class an error of the work can have.
C20_CommitFailureDistinctClass ==
    last.err = "CommitError" =>
        ErrorClass(last.err) \notin {ErrorClass(e) : e \in WorkFailures}

(***************************************************************************)
(* Part N.  validateSchemaName (db/tenant-schema.ts).                      *)
(***************************************************************************)
\* Values a JavaScript caller can pass: a string (its characters) or one of
\* a few values of another type.
JsString(s) ==
    [type |-> "string", chars |-> s, num |-> 0]

JsNumber(n) ==
    [type |-> "number", chars |-> <<>>, num |-> n]

JsNull ==
    [type |-> "object", chars |-> <<>>, num |-> 0]

JsUndefined ==
    [type |-> "undefined", chars |-> <<>>, num |-> 0]

\* A non-null object, which is truthy; told from null by num.
JsObject ==
    [type |-> "object", chars |-> <<>>, num |-> 1]

\* !schemaName
Falsy(x) ==
    \/ x.type = "undefined"
    \/ x.type = "object" /\ x.num = 0
    \/ x.type = "number" /\ x.num = 0
    \/ x.type = "string" /\ x.chars = <<>>

\* PostgreSQL identifier rules: max 63 characters
MaxIdentifierLength ==
    63

\* Variant: names of 63 characters are too long as well.
TooLongFrom63(s) ==
    Len(s) >= MaxIdentifierLength

\* schemaName.length > 63
TooLong(s) ==
    Len(s) > MaxIdentifierLength

\* [a-zA-Z_]
IdentStart ==
    LowerChars \cup UpperChars \cup {"_"}

\* [a-zA-Z0-9_]
IdentRest ==
    IdentStart \cup DigitChars

\* /^[a-zA-Z_][a-zA-Z0-9_]*$/.test(schemaName)
IdentifierRegex(s) ==
    /\ Len(s) >= 1
    /\ s[1] \in IdentStart
    /\ \A i \in 2..Len(s) : s[i] \in IdentRest

reservedKeywords ==
    { <<"p","u","b","l","i","c">>,
      <<"p","g","_","c","a","t","a","l","o","g">>,
      <<"p","g","_","t","o","a","s","t">>,
      <<"i","n","f","o","r","m","a","t","i","o","n","_",
        "s","c","h","e","m","a">>,
      <<"p","g","_","t","e","m","p">>,
      <<"p","g","_","t","o","a","s","t","_","t","e","m","p">> }

\* validateSchemaName: the error it throws, or "ok" when it returns.
validateSchemaName(x) ==
    IF Falsy(x) \/ x.type # "string" THEN "NotNonEmptyString"
    ELSE IF TooLong(x.chars) THEN "TooLong"
    ELSE IF ~IdentifierRegex(x.chars) THEN "BadPattern"
    ELSE IF ToLowerCase(x.chars) \in reservedKeywords THEN "Reserved"
    ELSE "ok"

\* Length up to which every string over NameAlphabet is tried.
MaxShort ==
    2

NameAlphabet ==
    {"a", "Z", "_", "0", "-", " ", "\""}

ShortNames ==
    UNION {[1..n -> NameAlphabet] : n \in 0..MaxShort}

\* Names around the length limit, well-formed and not.
LongNames ==
    {Rep("a", n) : n \in (MaxIdentifierLength - 1)..(MaxIdentifierLength + 1)}
      \cup {Rep("_", MaxIdentifierLength),
            Rep("Z", MaxIdentifierLength - 1) \o <<"9">>,
            <<"9">> \o Rep("a", MaxIdentifierLength - 1),
            Rep("a", MaxIdentifierLength - 1) \o <<"-">>,
            Rep("-", MaxIdentifierLength + 1)}

ToUpperChar(c) ==
    IF c \in LowerChars
    THEN UpperSeq[CHOOSE i \in 1..Len(LowerSeq) : LowerSeq[i] = c]
    ELSE c

\* The reserved names in other letter cases, and names next to them.
NearReserved ==
    reservedKeywords
      \cup {[i \in 1..Len(k) |-> ToUpperChar(k[i])] : k \in reservedKeywords}
      \cup {[k EXCEPT ![1] = ToUpperChar(@)] : k \in reservedKeywords}
      \cup {k \o <<"_">> : k \in reservedKeywords}
      \cup {k \o <<"_", "1">> : k \in reservedKeywords}
      \cup {SubSeq(k, 1, Len(k) - 1) : k \in reservedKeywords}

NameInputs ==
    {JsString(s) : s \in ShortNames \cup LongNames \cup NearReserved}
      \cup {JsNull, JsUndefined, JsObject, JsNumber(0), JsNumber(5)}

\* No call of validateSchemaName is followed.
NoInput ==
    JsUndefined

InitN ==
    /\ schemaName = NoInput
    /\ verdict = "none"

InitNames ==
    /\ schemaName \in NameInputs
    /\ verdict = "pending"

\* One call validateSchemaName(schemaName).
Validate ==
    /\ verdict = "pending"
    /\ verdict' = validateSchemaName(schemaName)
    /\ UNCHANGED <<schemaName, varsA, varsB>>

NextNames ==
    Validate

MaxMigrations ==
    2

Tags ==
    1..MaxMigrations

\* meta/_journal.json, as a member of the folder next to the <tag>.sql files
\* (which are named by their tag).
JournalFile ==
    0

\* The entry whose body is CREATE TABLE "dummy_table" (the first one).
DummyTableEntry ==
    1

\* Schema names given to the commands: two that validate, and two that do
\* not.
TenantNames ==
    {<<"t", "1">>, <<"p", "g", "2">>}

\* The default namespace, which holds schema_tracker.
PublicName ==
    <<"p", "u", "b", "l", "i", "c">>

BadNames ==
    {<<"1", "t">>, PublicName}

\* Namespaces of the engine that the model follows.
Namespaces ==
    TenantNames \cup {PublicName}

Range(f) ==
    {f[i] : i \in DOMAIN f}

\* A namespace the engine does not have.
Absent ==
    [exists |-> FALSE, tracking |-> FALSE, tables |-> {}, applied |-> <<>>]

\* CREATE SCHEMA IF NOT EXISTS <name>
CreateSchemaIfNotExists(ns) ==
    [ns EXCEPT !.exists = TRUE]

\* Variant: DROP SCHEMA IF EXISTS <name> (no CASCADE) removes only an empty
\* namespace.
DropSchemaRestrict(ns) ==
    IF ns.tables = {} /\ ~ns.tracking THEN Absent ELSE ns

\* DROP SCHEMA IF EXISTS <name> CASCADE
DropSchemaCascade(ns) ==
    Absent

\* escapeSchemaName: the identifier as it is written into a statement.
RECURSIVE DoubleQuotes(_)
DoubleQuotes(s) ==
    IF s = <<>> THEN <<>>
    ELSE (IF Head(s) = "\"" THEN <<"\"", "\"">> ELSE <<Head(s)>>)
            \o DoubleQuotes(Tail(s))

escapeSchemaName(name) ==
    IF name = PublicName THEN PublicName
    ELSE <<"\"">> \o DoubleQuotes(name) \o <<"\"">>

\* The namespace an identifier of a statement names for the engine: a
\* quoted identifier is taken literally ("" standing for one quote), an
\* unquoted one is folded to lower case.
RECURSIVE UndoubleQuotes(_)
UndoubleQuotes(s) ==
    IF Len(s) < 2 THEN s
    ELSE IF s[1] = "\"" /\ s[2] = "\""
         THEN <<"\"">> \o UndoubleQuotes(SubSeq(s, 3, Len(s)))
         ELSE <<s[1]>> \o UndoubleQuotes(Tail(s))

NamedBy(ident) ==
    IF Len(ident) >= 2 /\ ident[1] = "\"" /\ ident[Len(ident)] = "\""
    THEN UndoubleQuotes(SubSeq(ident, 2, Len(ident) - 1))
    ELSE ToLowerCase(ident)

\* Names with a row in schema_tracker.
Registered ==
    Range(schemaTracker)

\* schema_tracker is there to be queried (it lives in public).
TrackerUp ==
    engine[PublicName].exists

\* Variant: schema_tracker.name without the unique constraint.
NotUnique(tracked, name) ==
    FALSE

\* name: text('name').notNull().unique()
UniqueViolation(tracked, name) ==
    name \in Range(tracked)

\* No command is running.
NoRun ==
    [kind |-> "none", name |-> <<>>, pc |-> "idle",
     migrations |-> <<>>, appliedHashes |-> {}, i |-> 0, appliedCount |-> 0,
     pre |-> Absent, ran |-> <<>>, rec |-> <<>>, apply |-> "none",
     caught |-> "", cleanup |-> "none", existing |-> FALSE,
     schemas |-> <<>>, k |-> 0, success |-> 0, failures |-> 0,
     errors |-> <<>>, attempted |-> <<>>,
     impl |-> "none", expected |-> <<>>, healthy |-> <<>>,
     unhealthy |-> <<>>, orphaned |-> {}]

\* No command has ended.
NoExit ==
    [kind |-> "none", name |-> <<>>, exit |-> -1, error |-> "",
     caught |-> "", cleanup |-> "none"]

InitB ==
    /\ engine = [n \in Namespaces |->
                    IF n = PublicName THEN CreateSchemaIfNotExists(Absent)
                    ELSE Absent]
    /\ schemaTracker = <<>>
    /\ journal = <<>>
    /\ folder = {JournalFile}
    /\ run = NoRun
    /\ parked = NoRun
    /\ result = NoExit

\* drizzle-kit generate (part_005 line 4-12): a new entry at the end of the
\* journal and its .sql file.
Generate ==
    /\ Len(journal) < MaxMigrations
    /\ journal' = Append(journal, Len(journal) + 1)
    /\ folder' = folder \cup {JournalFile, Len(journal) + 1}
    /\ UNCHANGED <<engine, schemaTracker, run, result, varsA, varsN, parked>>

\* A file of the folder is not there (not deployed, deleted).
LoseFile(f) ==
    /\ f \in folder
    /\ folder' = folder \ {f}
    /\ UNCHANGED <<engine, schemaTracker, journal, run, result, varsA, varsN, parked>>

\* A file of the folder that was missing is put back.
RestoreFile(f) ==
    /\ f \in ({JournalFile} \cup Range(journal)) \ folder
    /\ folder' = folder \cup {f}
    /\ UNCHANGED <<engine, schemaTracker, journal, run, result, varsA, varsN, parked>>

\* process.exit(code), after handleScriptError when e is an error.
Exit(r, code, e) ==
    /\ result' = [kind |-> r.kind, name |-> r.name, exit |-> code,
                  error |-> e, caught |-> r.caught, cleanup |-> r.cleanup]
    /\ run' = NoRun

\* Variant: the loop of applyMigrations goes on with the next entry when
\* a statement throws.
ApplyThrowSkips(r, e) ==
    /\ run' = [r EXCEPT !.pc = "entry", !.i = @ + 1]
    /\ UNCHANGED result

\* applyMigrations throws e.  migrateTenant hands it to handleScriptError;
\* createTenantSchemaWithMigrations catches it (line 115).
ApplyThrow(r, e) ==
    IF r.kind = "migrateTenant"
    THEN Exit([r EXCEPT !.apply = "threw"], 1, e)
    ELSE /\ run' = [r EXCEPT !.apply = "threw", !.caught = e,
                             !.pc = "cleanup"]
         /\ UNCHANGED result

\* What the loop of migrateAllTenantSchemas holds between two rounds; the
\* locals of the call that has ended are gone.
LoopLocals(r) ==
    [NoRun EXCEPT !.kind = r.kind, !.pc = "each", !.schemas = r.schemas,
                  !.k = r.k, !.success = r.success, !.failures = r.failures,
                  !.errors = r.errors, !.attempted = r.attempted]

\* createTenantSchemaWithMigrations returns to its caller: createTenant goes
\* on to register the name; the loop of migrateAllTenantSchemas counts a
\* success and takes the next name.
ProvisionReturn(r) ==
    IF r.kind = "migrateAll"
    THEN run' = [LoopLocals(r) EXCEPT !.success = @ + 1, !.k = @ + 1]
    ELSE run' = [r EXCEPT !.pc = "register"]

\* Variant: the loop of migrateAllTenantSchemas without its try/catch.
ProvisionThrowUncaught(r, e) ==
    Exit(r, 1, e)

\* createTenantSchemaWithMigrations throws e to its caller: createTenant
\* ends in handleScriptError; the loop of migrateAllTenantSchemas catches
\* it, counts a failure, records { schema, error } and takes the next name.
ProvisionThrow(r, e) ==
    IF r.kind = "migrateAll"
    THEN /\ run' = [LoopLocals(r) EXCEPT
                        !.failures = @ + 1,
                        !.errors = Append(@, <<r.name, e>>),
                        !.k = @ + 1]
         /\ UNCHANGED result
    ELSE Exit(r, 1, e)

\* for (const migration of migrations): the entry of the i-th round, in
\* the reverse of the journal's order (variant).
EntryAtReversed(migrations, i) ==
    migrations[Len(migrations) + 1 - i]

\* for (const migration of migrations): the entry of the i-th round.
EntryAt(migrations, i) ==
    migrations[i]

\* Variant: every entry counts as applied.
AlreadyAppliedAlways(appliedHashes, tag) ==
    TRUE

\* appliedHashes.has(migration.tag)
AlreadyApplied(appliedHashes, tag) ==
    tag \in appliedHashes

\* Variant: the error of a failed cleanup is the one thrown.
RethrownCleanupError(error, cleanupError) ==
    IF cleanupError # "" THEN cleanupError ELSE error

\* catch (error) { try { DROP ... } catch (cleanupError) { log } throw error }
Rethrown(error, cleanupError) ==
    error

\* createTenant(schemaName) up to the call of
\* createTenantSchemaWithMigrations: validateSchemaName, findSchemaInTracker
\* (which fails when the database is not up), the exit when the name is
\* registered, and validateSchemaName again at line 57.
CreateTenant(name, up) ==
    /\ run.kind = "none"
    /\ LET r == [NoRun EXCEPT !.kind = "createTenant", !.name = name]
           v == validateSchemaName(JsString(name))
       IN  IF v # "ok" THEN Exit(r, 1, v)
           ELSE IF ~(up /\ TrackerUp) THEN Exit(r, 1, "DbError")
           ELSE IF name \in Registered
                THEN Exit(r, 1, "AlreadyRegistered")
           ELSE /\ run' = [r EXCEPT !.pc = "createSchema"]
                /\ result' = NoExit
    /\ UNCHANGED <<engine, schemaTracker, journal, folder, varsA, varsN, parked>>

\* CREATE SCHEMA IF NOT EXISTS
CreateSchema ==
    /\ run.pc = "createSchema"
    /\ engine' = [engine EXCEPT ![run.name] = CreateSchemaIfNotExists(@)]
    /\ run' = [run EXCEPT !.pc = "apply"]
    /\ UNCHANGED <<schemaTracker, journal, folder, result, varsA, varsN, parked>>

CreateSchemaFail ==
    /\ run.pc = "createSchema"
    /\ run' = [run EXCEPT !.caught = "CreateSchemaError", !.pc = "cleanup"]
    /\ UNCHANGED <<engine, schemaTracker, journal, folder, result,
                   varsA, varsN, parked>>

\* applyMigrations, line 45-94: search_path, the journal, the tracking
\* table, and the hashes recorded so far.  With an empty journal the
\* function returns before it creates the tracking table (the loop is
\* entered with nothing to do).
ApplyBegin ==
    /\ run.pc = "apply"
    /\ LET n == run.name
           r == [run EXCEPT !.pre = engine[n], !.apply = "running",
                            !.appliedCount = 0, !.ran = <<>>, !.rec = <<>>]
       IN  IF JournalFile \notin folder
           THEN ApplyThrow(r, "JournalNotFound") /\ UNCHANGED engine
           ELSE IF journal = <<>>
           THEN /\ run' = [r EXCEPT !.pc = "entry", !.migrations = <<>>,
                                    !.appliedHashes = {}, !.i = 1]
                /\ UNCHANGED <<engine, result>>
           ELSE IF ~engine[n].exists
           THEN ApplyThrow(r, "SchemaNotFound") /\ UNCHANGED engine
           ELSE /\ engine' = [engine EXCEPT ![n].tracking = TRUE]
                /\ run' = [r EXCEPT !.pc = "entry", !.migrations = journal,
                              !.appliedHashes = Range(engine[n].applied),
                              !.i = 1]
                /\ UNCHANGED result
    /\ UNCHANGED <<schemaTracker, journal, folder, varsA, varsN, parked>>

\* A statement of line 54-94 fails: SET search_path or CREATE TABLE IF NOT
\* EXISTS (nothing has changed), or the SELECT of the hashes (the tracking
\* table is there).
ApplyBeginFail(at) ==
    /\ run.pc = "apply"
    /\ LET n == run.name
           r == [run EXCEPT !.pre = engine[n], !.apply = "running",
                            !.appliedCount = 0, !.ran = <<>>, !.rec = <<>>]
       IN  /\ at = "select" =>
                 JournalFile \in folder /\ journal # <<>> /\ engine[n].exists
           /\ engine' = IF at = "select"
                        THEN [engine EXCEPT ![n].tracking = TRUE]
                        ELSE engine
           /\ ApplyThrow(r, "DbError")
    /\ UNCHANGED <<schemaTracker, journal, folder, varsA, varsN, parked>>

\* One round of the loop up to the execution of the body (line 98-122).
\* The body creates the entry's table in the namespace that search_path
\* names, and fails when the table is there.
ApplyEntry ==
    /\ run.pc = "entry"
    /\ run.i <= Len(run.migrations)
    /\ LET n == run.name
           tag == EntryAt(run.migrations, run.i)
       IN  IF tag \notin folder
           THEN ApplyThrow(run, "FileNotFound") /\ UNCHANGED engine
           ELSE IF AlreadyApplied(run.appliedHashes, tag)
           THEN /\ run' = [run EXCEPT !.i = @ + 1]
                /\ UNCHANGED <<engine, result>>
           ELSE IF ~engine[n].exists \/ tag \in engine[n].tables
           THEN ApplyThrow(run, "BodyError") /\ UNCHANGED engine
           ELSE /\ engine' = [engine EXCEPT ![n].tables = @ \cup {tag}]
                /\ run' = [run EXCEPT !.ran = Append(@, tag),
                                      !.pc = "record"]
                /\ UNCHANGED result
    /\ UNCHANGED <<schemaTracker, journal, folder, varsA, varsN, parked>>

\* The engine or the link fails while the body is executed.
ApplyEntryFail ==
    /\ run.pc = "entry"
    /\ run.i <= Len(run.migrations)
    /\ EntryAt(run.migrations, run.i) \in folder
    /\ ~AlreadyApplied(run.appliedHashes, EntryAt(run.migrations, run.i))
    /\ ApplyThrow(run, "BodyError")
    /\ UNCHANGED <<engine, schemaTracker, journal, folder, varsA, varsN, parked>>

\* The body of an entry that can be run again (its statements carry IF NOT
\* EXISTS) is executed in a namespace that holds the entry's table already:
\* it succeeds and changes nothing.
ApplyEntryAgain ==
    /\ run.pc = "entry"
    /\ run.i <= Len(run.migrations)
    /\ LET n == run.name
           tag == EntryAt(run.migrations, run.i)
       IN  /\ tag \in folder
           /\ ~AlreadyApplied(run.appliedHashes, tag)
           /\ engine[n].exists
           /\ tag \in engine[n].tables
           /\ run' = [run EXCEPT !.ran = Append(@, tag), !.pc = "record"]
    /\ UNCHANGED <<engine, schemaTracker, journal, folder, result,
                   varsA, varsN, parked>>

\* INSERT INTO "__drizzle_migrations" (hash, created_at); appliedCount++
RecordEntry ==
    /\ run.pc = "record"
    /\ LET tag == EntryAt(run.migrations, run.i)
       IN  IF ~engine[run.name].tracking
           THEN ApplyThrow(run, "RecordError") /\ UNCHANGED engine
           ELSE /\ engine' = [engine EXCEPT
                                ![run.name].applied = Append(@, tag)]
                /\ run' = [run EXCEPT !.rec = Append(@, tag),
                                      !.appliedCount = @ + 1,
                                      !.i = @ + 1, !.pc = "entry"]
                /\ UNCHANGED result
    /\ UNCHANGED <<schemaTracker, journal, folder, varsA, varsN, parked>>

RecordEntryFail ==
    /\ run.pc = "record"
    /\ ApplyThrow(run, "RecordError")
    /\ UNCHANGED <<engine, schemaTracker, journal, folder, varsA, varsN, parked>>

\* The loop is over: applyMigrations returns.
ApplyReturn ==
    /\ run.pc = "entry"
    /\ run.i > Len(run.migrations)
    /\ run' = [run EXCEPT !.apply = "returned",
                          !.pc = IF run.kind = "migrateTenant"
                                 THEN "listTables" ELSE "verify"]
    /\ UNCHANGED <<engine, schemaTracker, journal, folder, result,
                   varsA, varsN, parked>>

\* createTenantSchemaWithMigrations, line 80-113: dummy_table must be in the
\* tenant schema.
Verify ==
    /\ run.pc = "verify"
    /\ IF DummyTableEntry \in engine[run.name].tables
       THEN ProvisionReturn(run)
       ELSE run' = [run EXCEPT !.caught = "TableMissing", !.pc = "cleanup"]
    /\ UNCHANGED <<engine, schemaTracker, journal, folder, result,
                   varsA, varsN, parked>>

\* One of the information_schema queries of line 80-103 fails.
VerifyFail ==
    /\ run.pc = "verify"
    /\ run' = [run EXCEPT !.caught = "VerifyError", !.pc = "cleanup"]
    /\ UNCHANGED <<engine, schemaTracker, journal, folder, result,
                   varsA, varsN, parked>>

\* The catch block, line 115-123, when the drop succeeds; createTenant ends
\* in handleScriptError.
Cleanup ==
    /\ run.pc = "cleanup"
    /\ engine' = [engine EXCEPT ![run.name] = DropSchemaCascade(@)]
    /\ ProvisionThrow([run EXCEPT !.cleanup = "ok"],
                      Rethrown(run.caught, ""))
    /\ UNCHANGED <<schemaTracker, journal, folder, varsA, varsN, parked>>

\* The catch block when the drop fails as well.
CleanupFail ==
    /\ run.pc = "cleanup"
    /\ ProvisionThrow([run EXCEPT !.cleanup = "failed"],
                      Rethrown(run.caught, "CleanupError"))
    /\ UNCHANGED <<engine, schemaTracker, journal, folder, varsA, varsN, parked>>

\* db.insert(schemaTracker).values({ name }); name is unique.
Register ==
    /\ run.pc = "register"
    /\ IF ~TrackerUp
       THEN Exit(run, 1, "DbError") /\ UNCHANGED schemaTracker
       ELSE IF UniqueViolation(schemaTracker, run.name)
       THEN Exit(run, 1, "UniqueViolation") /\ UNCHANGED schemaTracker
       ELSE /\ schemaTracker' = Append(schemaTracker, run.name)
            /\ run' = [run EXCEPT !.pc = "testData"]
            /\ UNCHANGED result
    /\ UNCHANGED <<engine, journal, folder, varsA, varsN, parked>>

RegisterFail ==
    /\ run.pc = "register"
    /\ Exit(run, 1, "DbError")
    /\ UNCHANGED <<engine, schemaTracker, journal, folder, varsA, varsN, parked>>

\* The test row of dummy_table is inserted and read back; exit(0).
InsertTestData ==
    /\ run.pc = "testData"
    /\ IF DummyTableEntry \in engine[run.name].tables
       THEN Exit(run, 0, "")
       ELSE Exit(run, 1, "DbError")
    /\ UNCHANGED <<engine, schemaTracker, journal, folder, varsA, varsN, parked>>

InsertTestDataFail ==
    /\ run.pc = "testData"
    /\ Exit(run, 1, "DbError")
    /\ UNCHANGED <<engine, schemaTracker, journal, folder, varsA, varsN, parked>>

\* migrateTenant(schemaName) up to the call of applyMigrations:
\* validateSchemaExists with requireInTracker and requireInDatabase.
MigrateTenant(name, up) ==
    /\ run.kind = "none"
    /\ LET r == [NoRun EXCEPT !.kind = "migrateTenant", !.name = name]
       IN  IF ~(up /\ TrackerUp) THEN Exit(r, 1, "DbError")
           ELSE IF name \notin Registered
           THEN Exit(r, 1, "NotInTracker")
           ELSE IF name \notin DOMAIN engine \/ ~engine[name].exists
           THEN Exit(r, 1, "NotInDatabase")
           ELSE /\ run' = [r EXCEPT !.pc = "apply"]
                /\ result' = NoExit
    /\ UNCHANGED <<engine, schemaTracker, journal, folder, varsA, varsN, parked>>

\* getTablesInSchema, then exit(0).
ListTables ==
    /\ run.pc = "listTables"
    /\ Exit(run, 0, "")
    /\ UNCHANGED <<engine, schemaTracker, journal, folder, varsA, varsN, parked>>

ListTablesFail ==
    /\ run.pc = "listTables"
    /\ Exit(run, 1, "DbError")
    /\ UNCHANGED <<engine, schemaTracker, journal, folder, varsA, varsN, parked>>

\* dropTenant(schemaName) up to the drop: findSchemaInTracker.
DropTenant(name, up) ==
    /\ run.kind = "none"
    /\ LET r == [NoRun EXCEPT !.kind = "dropTenant", !.name = name,
                              !.existing = (name \in Registered)]
       IN  IF ~(up /\ TrackerUp) THEN Exit(r, 1, "DbError")
           ELSE /\ run' = [r EXCEPT !.pc = "dropSchema"]
                /\ result' = NoExit
    /\ UNCHANGED <<engine, schemaTracker, journal, folder, varsA, varsN, parked>>

\* DROP SCHEMA IF EXISTS ... CASCADE; exit(0) when the name was not
\* registered.
DropSchema ==
    /\ run.pc = "dropSchema"
    /\ LET target == NamedBy(escapeSchemaName(run.name))
       IN  /\ engine' = IF target \in DOMAIN engine
                        THEN [engine EXCEPT ![target] = DropSchemaCascade(@)]
                        ELSE engine
           /\ schemaTracker' = IF target = PublicName THEN <<>>
                               ELSE schemaTracker
    /\ IF run.existing
       THEN run' = [run EXCEPT !.pc = "deleteRow"] /\ UNCHANGED result
       ELSE Exit(run, 0, "")
    /\ UNCHANGED <<journal, folder, varsA, varsN, parked>>

DropSchemaFail ==
    /\ run.pc = "dropSchema"
    /\ Exit(run, 1, "DbError")
    /\ UNCHANGED <<engine, schemaTracker, journal, folder, varsA, varsN, parked>>

\* db.delete(schemaTracker).where(eq(schemaTracker.name, schemaName))
DeleteRow ==
    /\ run.pc = "deleteRow"
    /\ TrackerUp
    /\ schemaTracker' = SelectSeq(schemaTracker, LAMBDA x : x # run.name)
    /\ Exit(run, 0, "")
    /\ UNCHANGED <<engine, journal, folder, varsA, varsN, parked>>

DeleteRowFail ==
    /\ run.pc = "deleteRow"
    /\ Exit(run, 1, "DbError")
    /\ UNCHANGED <<engine, schemaTracker, journal, folder, varsA, varsN, parked>>

\* migrate-tenants: migrateAllTenantSchemas up to its loop.  The names
\* come from schema_tracker in the order of its rows; when the SELECT fails
\* the error passes the finally block and main ends in handleScriptError.
\* With no rows the function returns results as it was initialised.
MigrateAll(up) ==
    /\ run.kind = "none"
    /\ LET r == [NoRun EXCEPT !.kind = "migrateAll"]
       IN  IF ~(up /\ TrackerUp) THEN Exit(r, 1, "DbError")
           ELSE /\ run' = [r EXCEPT !.schemas = schemaTracker, !.k = 1,
                                    !.pc = "each"]
                /\ result' = NoExit
    /\ UNCHANGED <<engine, schemaTracker, journal, folder, varsA, varsN, parked>>

\* for (const { name } of schemas): createTenantSchemaWithMigrations(name)
\* is entered; validateSchemaName throws before the try block.
MigrateEach ==
    /\ run.kind = "migrateAll"
    /\ run.pc = "each"
    /\ run.k <= Len(run.schemas)
    /\ LET r == [run EXCEPT !.name = run.schemas[run.k],
                            !.attempted = Append(@, run.schemas[run.k])]
           v == validateSchemaName(JsString(r.name))
       IN  IF v # "ok" THEN ProvisionThrow(r, v)
           ELSE run' = [r EXCEPT !.pc = "createSchema"] /\ UNCHANGED result
    /\ UNCHANGED <<engine, schemaTracker, journal, folder, varsA, varsN, parked>>

\* main of migrate-tenants after migrateAllTenantSchemas has returned.
MigrateExitCode(results) ==
    IF results.failures > 0 THEN 1 ELSE 0

MigrateAllReturn ==
    /\ run.kind = "migrateAll"
    /\ run.pc = "each"
    /\ run.k > Len(run.schemas)
    /\ Exit(run, MigrateExitCode(run), "")
    /\ UNCHANGED <<engine, schemaTracker, journal, folder, varsA, varsN, parked>>

\* schema_name NOT IN (...) of the query for orphaned schemas.
NotInList ==
    { <<"p","g","_","c","a","t","a","l","o","g">>,
      <<"i","n","f","o","r","m","a","t","i","o","n","_",
        "s","c","h","e","m","a">>,
      <<"p","g","_","t","o","a","s","t">>,
      <<"p","g","_","t","e","m","p","_","1">>,
      <<"p","g","_","t","o","a","s","t","_","t","e","m","p","_","1">>,
      <<"p","u","b","l","i","c">> }

\* The pattern of schema_name NOT LIKE 'pg_%'.
NotLikePattern ==
    <<"p", "g", "_", "%">>

\* s LIKE pat: _ stands for any one character, % for any run of characters.
RECURSIVE Like(_, _)
Like(s, pat) ==
    IF pat = <<>> THEN s = <<>>
    ELSE IF Head(pat) = "%"
    THEN \E i \in 0..Len(s) : Like(SubSeq(s, i + 1, Len(s)), Tail(pat))
    ELSE /\ s # <<>>
         /\ Head(pat) = "_" \/ Head(pat) = Head(s)
         /\ Like(Tail(s), Tail(pat))

\* The rows of the query on information_schema.schemata.
AllSchemas ==
    {n \in Namespaces : /\ engine[n].exists
                        /\ n \notin NotInList
                        /\ ~Like(n, NotLikePattern)}

\* Variant: filter with a predicate that holds for every element.
FilterNothing(list, other) ==
    list

\* expectedMigrations.filter((m) => !appliedSet.has(m)), and the same with
\* the two lists exchanged.
FilterNotIn(list, other) ==
    SelectSeq(list, LAMBDA m : m \notin Range(other))

\* Variant: the row of information_schema.schemata is not looked at.
SchemaExistsAlways(ns) ==
    TRUE

\* schemaExistsInDatabase
SchemaExists(ns) ==
    ns.exists

\* One round of the loop over trackedSchemas: the entry pushed for a
\* namespace ns, with the checks that were evaluated (1 the namespace, 2
\* dummy_table, 3 the tracking table, 4 the applied migrations).  fail is
\* the check whose query throws, 0 for none.  The older healthCheck only
\* counts the rows of the tracking table.
CheckSchema(impl, ns, expected, fail) ==
    LET entry(issue, n) ==
            [issue |-> issue, checks |-> n, missing |-> <<>>, extra |-> <<>>]
        missing == FilterNotIn(expected, ns.applied)
        extra == FilterNotIn(ns.applied, expected)
    IN  IF fail = 1 THEN entry("DbError", 1)
        ELSE IF ~SchemaExists(ns) THEN entry("SchemaMissing", 1)
        ELSE IF fail = 2 THEN entry("DbError", 2)
        ELSE IF DummyTableEntry \notin ns.tables THEN entry("TableMissing", 2)
        ELSE IF fail = 3 THEN entry("CheckFailed", 3)
        ELSE IF ~ns.tracking THEN entry("TrackingMissing", 3)
        ELSE IF fail = 4 THEN entry("CheckFailed", 4)
        ELSE IF impl = "compare" /\ (missing # <<>> \/ extra # <<>>)
        THEN [issue |-> "Mismatch", checks |-> 4,
              missing |-> missing, extra |-> extra]
        ELSE entry("", 4)

\* health-check up to the loop: the rows of schema_tracker and (in the
\* healthCheck that compares) the tags of the journal; a journal that
\* cannot be read leaves expectedMigrations empty.  impl is the healthCheck
\* that runs: the one that compares the tags, or the one that counts.
HealthCheck(up, impl) ==
    /\ run.kind = "none"
    /\ LET r == [NoRun EXCEPT !.kind = "healthCheck", !.impl = impl]
       IN  IF ~(up /\ TrackerUp) THEN Exit(r, 1, "DbError")
           ELSE /\ run' = [r EXCEPT
                             !.schemas = schemaTracker, !.k = 1,
                             !.expected = IF impl = "compare"
                                             /\ JournalFile \in folder
                                          THEN journal ELSE <<>>,
                             !.pc = "check"]
                /\ result' = NoExit
    /\ UNCHANGED <<engine, schemaTracker, journal, folder, varsA, varsN, parked>>

\* for (const { name } of trackedSchemas)
HealthCheckSchema(fail) ==
    /\ run.kind = "healthCheck"
    /\ run.pc = "check"
    /\ run.k <= Len(run.schemas)
    /\ LET name == run.schemas[run.k]
           e == CheckSchema(run.impl, engine[name], run.expected, fail)
       IN  /\ fail # 0 => e.checks = fail /\ e.issue \in {"DbError", "CheckFailed"}
           /\ run' = IF e.issue = ""
                     THEN [run EXCEPT !.healthy = Append(@, name),
                                      !.k = @ + 1]
                     ELSE [run EXCEPT
                             !.unhealthy = Append(@, [schema |-> name] @@ e),
                             !.k = @ + 1]
    /\ UNCHANGED <<engine, schemaTracker, journal, folder, result,
                   varsA, varsN, parked>>

\* Orphaned schemas: rows of the query that are not tracked.
HealthOrphans ==
    /\ run.kind = "healthCheck"
    /\ run.pc = "check"
    /\ run.k > Len(run.schemas)
    /\ run' = [run EXCEPT !.orphaned = AllSchemas \ Range(run.schemas),
                          !.pc = "summary"]
    /\ UNCHANGED <<engine, schemaTracker, journal, folder, result,
                   varsA, varsN, parked>>

\* The query on information_schema.schemata fails: handleScriptError.
HealthOrphansFail ==
    /\ run.kind = "healthCheck"
    /\ run.pc = "check"
    /\ run.k > Len(run.schemas)
    /\ Exit(run, 1, "DbError")
    /\ UNCHANGED <<engine, schemaTracker, journal, folder, varsA, varsN, parked>>

\* Variant: orphaned schemas do not count as an issue.
HealthExitCodeUnhealthyOnly(results) ==
    IF Len(results.unhealthy) > 0 THEN 1 ELSE 0

\* Exit with error code if issues found
HealthExitCode(results) ==
    IF Len(results.unhealthy) > 0 \/ results.orphaned # {} THEN 1 ELSE 0

HealthExit ==
    /\ run.kind = "healthCheck"
    /\ run.pc = "summary"
    /\ Exit(run, HealthExitCode(run), "")
    /\ UNCHANGED <<engine, schemaTracker, journal, folder, varsA, varsN, parked>>

\* Names the commands are given.
CommandNames ==
    TenantNames \cup BadNames

DropNames ==
    TenantNames \cup BadNames

NextB ==
    \/ Generate
    \/ \E f \in {JournalFile} \cup Tags : LoseFile(f)
    \/ \E f \in {JournalFile} \cup Tags : RestoreFile(f)
    \/ \E name \in CommandNames, up \in BOOLEAN : CreateTenant(name, up)
    \/ CreateSchema
    \/ CreateSchemaFail
    \/ ApplyBegin
    \/ \E at \in {"searchPath", "select"} : ApplyBeginFail(at)
    \/ ApplyEntry
    \/ ApplyEntryFail
    \/ RecordEntry
    \/ RecordEntryFail
    \/ ApplyReturn
    \/ Verify
    \/ VerifyFail
    \/ Cleanup
    \/ CleanupFail
    \/ Register
    \/ RegisterFail
    \/ InsertTestData
    \/ InsertTestDataFail
    \/ \E name \in CommandNames, up \in BOOLEAN : MigrateTenant(name, up)
    \/ ListTables
    \/ ListTablesFail
    \/ \E name \in DropNames, up \in BOOLEAN : DropTenant(name, up)
    \/ DropSchema
    \/ DropSchemaFail
    \/ DeleteRow
    \/ DeleteRowFail

\* Two create-tenant commands run at the same time: the processor turns
\* from the one to the other.
Switch ==
    /\ run # parked
    /\ run' = parked
    /\ parked' = run
    /\ UNCHANGED <<engine, schemaTracker, journal, folder, result,
                   varsA, varsN>>

\* What a create-tenant of t1 that succeeded gave its caller.
CreatedFirst ==
    [NoExit EXCEPT !.kind = "createTenant", !.name = <<"t", "1">>,
                   !.exit = 0]

\* The commands that race are all started before one of them has exited.
RaceCreateTenant(name, up) ==
    /\ result \in {NoExit, CreatedFirst}
    /\ CreateTenant(name, up)

NextRace ==
    \/ Generate
    \/ \E name \in TenantNames, up \in BOOLEAN : RaceCreateTenant(name, up)
    \/ CreateSchema
    \/ CreateSchemaFail
    \/ ApplyBegin
    \/ \E at \in {"searchPath", "select"} : ApplyBeginFail(at)
    \/ ApplyEntry
    \/ ApplyEntryFail
    \/ RecordEntry
    \/ RecordEntryFail
    \/ ApplyReturn
    \/ Verify
    \/ VerifyFail
    \/ Cleanup
    \/ CleanupFail
    \/ Register
    \/ RegisterFail
    \/ InsertTestData
    \/ InsertTestDataFail
    \/ Switch

\* The commands that migrate are all started before one of them has exited.
RaceMigrateTenant(name, up) ==
    /\ result \in {NoExit, CreatedFirst}
    /\ MigrateTenant(name, up)

RaceMigrateAll(up) ==
    /\ result \in {NoExit, CreatedFirst}
    /\ MigrateAll(up)

\* migrate-tenant and migrate-tenants run at the same time on a database
\* that works: every statement succeeds or fails for what the other
\* command has done.
NextMigrateRace ==
    \/ Generate
    \/ \E name \in TenantNames, up \in BOOLEAN : RaceMigrateTenant(name, up)
    \/ \E up \in BOOLEAN : RaceMigrateAll(up)
    \/ MigrateEach
    \/ CreateSchema
    \/ ApplyBegin
    \/ ApplyEntry
    \/ ApplyEntryAgain
    \/ RecordEntry
    \/ ApplyReturn
    \/ Verify
    \/ Cleanup
    \/ ListTables
    \/ MigrateAllReturn
    \/ Switch

\* The commands that provision and catch up the fleet.
NextFleet ==
    \/ Generate
    \/ \E f \in {JournalFile} \cup Tags : LoseFile(f)
    \/ \E f \in {JournalFile} \cup Tags : RestoreFile(f)
    \/ \E name \in CommandNames, up \in BOOLEAN : CreateTenant(name, up)
    \/ CreateSchema
    \/ CreateSchemaFail
    \/ ApplyBegin
    \/ \E at \in {"searchPath", "select"} : ApplyBeginFail(at)
    \/ ApplyEntry
    \/ ApplyEntryFail
    \/ RecordEntry
    \/ RecordEntryFail
    \/ ApplyReturn
    \/ Verify
    \/ VerifyFail
    \/ Cleanup
    \/ CleanupFail
    \/ Register
    \/ RegisterFail
    \/ InsertTestData
    \/ InsertTestDataFail
    \/ \E up \in BOOLEAN : MigrateAll(up)
    \/ MigrateEach
    \/ MigrateAllReturn
    \/ \E up \in BOOLEAN, impl \in {"compare", "count"} : HealthCheck(up, impl)
    \/ \E fail \in 0..4 : HealthCheckSchema(fail)
    \/ HealthOrphans
    \/ HealthOrphansFail
    \/ HealthExit

(***************************************************************************)
(* Properties of Part B.                                                   *)
(***************************************************************************)
\* A namespace that has just been created.
Fresh ==
    CreateSchemaIfNotExists(Absent)

\* A namespace to which exactly the manifest m has been applied.
AppliedTo(m) ==
    [exists |-> TRUE, tracking |-> m # <<>>, tables |-> Range(m),
     applied |-> m]

\* C5: a call of applyMigrations that returns has, on a fresh namespace,
\* applied every entry of the manifest (n of n); on a namespace to which
\* this manifest has been applied it has applied 0 entries and the
\* namespace's tables and tracking records are what they were.
C5_ApplyIdempotent ==
    [][(run.apply = "running" /\ run'.apply = "returned") =>
          LET n == run.name
              m == run.migrations
          IN  /\ run.pre = Fresh =>
                    /\ run'.appliedCount = Len(m)
                    /\ engine'[n] = AppliedTo(m)
              /\ run.pre = AppliedTo(m) =>
                    /\ run'.appliedCount = 0
                    /\ engine'[n] = run.pre]_vars

\* migrateTenant has applied again, to a namespace that holds all of it, a
\* manifest of at least two entries.
C5_Witness ==
    /\ run.kind = "migrateTenant"
    /\ run.apply = "returned"
    /\ Len(run.migrations) >= 2
    /\ run.pre = AppliedTo(run.migrations)
    /\ run.appliedCount = 0

IsPrefix(s, t) ==
    /\ Len(s) <= Len(t)
    /\ \A i \in 1..Len(s) : s[i] = t[i]

\* C6: the tags recorded in a namespace are always a prefix of the
\* manifest, and the body of an entry is only executed in a namespace in
\* which every earlier entry of the manifest is recorded.
C6_AppliedInManifestOrder ==
    [][/\ \A n \in TenantNames : IsPrefix(engine'[n].applied, journal')
       /\ \A n \in TenantNames :
             \A t \in engine'[n].tables \ engine[n].tables :
                \A k \in 1..Len(journal) :
                   journal[k] = t =>
                      \A e \in 1..(k - 1) :
                         journal[e] \in Range(engine[n].applied)]_vars

\* A later call has recorded an entry after those an earlier call recorded.
C6_Witness ==
    /\ run.kind = "migrateTenant"
    /\ run.pre.applied # <<>>
    /\ run.rec # <<>>
    /\ engine[run.name].applied = run.pre.applied \o run.rec

\* C7 (as stated): a call of applyMigrations that throws for a missing
\* migration file has executed no body and recorded no entry.
C7_NoPartialExecution ==
    [][(/\ run.apply = "running"
        /\ \/ run'.apply = "threw" /\ run'.caught = "FileNotFound"
           \/ run'.kind = "none" /\ result'.error = "FileNotFound")
          => run.ran = <<>> /\ run.rec = <<>>]_vars

\* C22: a tag is recorded only by the step that follows the execution of
\* its body, in the namespace that holds the body's table; when a body
\* fails nothing is executed or recorded by that step, the tag of the entry
\* is not recorded, and the call is over: it executes and records nothing
\* more.  The loop passes an entry only when its tag was recorded before
\* the call or is recorded by it.
C22_RecordAfterBody ==
    [][/\ \A n \in TenantNames :
             engine'[n].applied # engine[n].applied /\ engine'[n].exists =>
                /\ run.pc = "record"
                /\ n = run.name
                /\ run.ran # <<>>
                /\ engine'[n].applied
                      = Append(engine[n].applied, run.ran[Len(run.ran)])
                /\ run.ran[Len(run.ran)] \in engine[n].tables
       /\ (run.pc = "entry" /\ run'.pc = "entry" /\ run'.i # run.i) =>
             AlreadyApplied(run.appliedHashes,
                            EntryAt(run.migrations, run.i))
       /\ (run.pc = "record" /\ run'.pc = "entry") =>
             engine'[run.name].applied # engine[run.name].applied
       /\ (/\ run.pc = "entry"
           /\ \/ run'.caught = "BodyError"
              \/ run'.kind = "none" /\ result'.error = "BodyError") =>
             /\ engine' = engine
             /\ EntryAt(run.migrations, run.i)
                   \notin Range(engine'[run.name].applied)
             /\ run'.kind = "none" \/ run'.apply = "threw"
       /\ run.apply = "threw" =>
             /\ run'.pc \notin {"entry", "record"}
             /\ \A n \in TenantNames : engine'[n] \in {engine[n], Absent}]_vars

\* The body of an entry has failed with a later entry still to come.
C22_Witness ==
    /\ run.apply = "threw"
    /\ run.caught = "BodyError"
    /\ run.i < Len(run.migrations)

\* C23: when no command is running, every entry whose body has taken
\* effect in a namespace has its tag in the namespace's tracking table.
C23_BodyAndRecordAtomic ==
    run.kind = "none" =>
        \A n \in TenantNames :
            engine[n].tables \subseteq Range(engine[n].applied)

InTry ==
    {"createSchema", "apply", "entry", "record", "verify"}

\* C8: createTenantSchemaWithMigrations never leaves its try block with an
\* error other than through the catch block; the catch block attempts the
\* cascading drop, and what reaches the caller is the error that was caught,
\* whether the drop succeeded (the namespace is gone) or failed.
C8_OriginalErrorSurfaces ==
    [][/\ (run.kind = "createTenant" /\ run.pc \in InTry) =>
             /\ run'.kind = "createTenant"
             /\ run'.pc \in InTry \cup {"cleanup", "register"}
             /\ run'.pc = "cleanup" => run'.caught # ""
             /\ run'.pc # "cleanup" => run'.caught = ""
       /\ (run.kind = "createTenant" /\ run.pc = "cleanup" /\ run' # run) =>
             /\ run'.kind = "none"
             /\ result'.cleanup \in {"ok", "failed"}
             /\ result'.cleanup = "ok" => engine'[run.name] = Absent
             /\ result'.error = run.caught
             /\ result'.exit = 1]_vars

\* A provisioning run has failed, and so has its cleanup.
C8_Witness ==
    /\ result.kind = "createTenant"
    /\ result.cleanup = "failed"
    /\ result.error = "FileNotFound"

\* C9: when createTenant ends after a failed provisioning whose cleanup
\* drop succeeded, the namespace is absent and the name is not registered;
\* a name is only registered by a run whose provisioning has returned.
C9_FailedProvisionLeavesNothing ==
    [][/\ (run.kind = "createTenant" /\ run'.kind = "none"
             /\ result'.cleanup = "ok") =>
             /\ engine'[run.name] = Absent
             /\ run.name \notin Range(schemaTracker')
       /\ Range(schemaTracker') \ Registered # {} =>
             /\ Range(schemaTracker') \ Registered = {run.name}
             /\ run.apply = "returned"
             /\ run.caught = ""
             /\ run.cleanup = "none"]_vars

\* A provisioning run has failed for a missing migration file and its
\* cleanup drop has succeeded.
C9_Witness ==
    /\ result.kind = "createTenant"
    /\ result.cleanup = "ok"
    /\ result.caught = "FileNotFound"
    /\ engine[result.name] = Absent
    /\ result.name \notin Registered

\* The loop of migrateAllTenantSchemas is over.
LoopDone ==
    /\ run.kind = "migrateAll"
    /\ run.pc = "each"
    /\ run.k > Len(run.schemas)

\* C11: migrateAllTenantSchemas attempts the names it read from
\* schema_tracker one after the other in the order of the rows, each once;
\* whatever happens to one name, the loop goes on to the next; success and
\* failures count the names that are done, errors holds one entry for each
\* failed name; the command ends only after the last name, and with no
\* error of a namespace thrown to main.
C11_MigrateAllIsolatesFailures ==
    [][run.kind = "migrateAll" =>
          /\ IsPrefix(run.attempted, run.schemas)
          /\ Len(run.attempted) = IF run.pc = "each" THEN run.k - 1
                                                     ELSE run.k
          /\ run.pc # "each" => run.name = run.schemas[run.k]
          /\ run.success + run.failures = run.k - 1
          /\ Len(run.errors) = run.failures
          /\ \A a \in DOMAIN run.errors :
                /\ \E b \in 1..(run.k - 1) : run.errors[a][1] = run.schemas[b]
                /\ \A b \in DOMAIN run.errors :
                      a # b => run.errors[a][1] # run.errors[b][1]
          /\ run'.kind = "migrateAll" =>
                /\ run'.schemas = run.schemas
                /\ run'.k \in {run.k, run.k + 1}
          /\ run'.kind # "migrateAll" =>
                /\ LoopDone
                /\ result'.kind = "migrateAll"
                /\ result'.error = ""]_vars

\* Of two registered names the first has failed and the second has been
\* migrated.
C11_Witness ==
    /\ LoopDone
    /\ Len(run.schemas) = 2
    /\ run.success = 1
    /\ run.failures = 1
    /\ run.errors[1][1] = run.schemas[1]

\* C12: migrateAllTenantSchemas does not create the namespace of a
\* registered name that is absent from the engine.
C12_MigrateAllCreatesNothing ==
    [][run.kind = "migrateAll" =>
          \A n \in TenantNames : ~engine[n].exists => ~engine'[n].exists]_vars

\* C28: migrateAllTenantSchemas removes no namespace and no table: a
\* namespace that exists keeps existing, with the tables it had.
C28_MigrateAllKeepsData ==
    [][run.kind = "migrateAll" =>
          \A n \in TenantNames :
             engine[n].exists =>
                /\ engine'[n].exists
                /\ engine[n].tables \subseteq engine'[n].tables]_vars

\* The first of the checks namespace, dummy_table, tracking table that a
\* namespace fails, 0 when it passes the three.
FirstFailing(ns) ==
    IF ~ns.exists THEN 1
    ELSE IF DummyTableEntry \notin ns.tables THEN 2
    ELSE IF ~ns.tracking THEN 3
    ELSE 0

\* The check a reported issue belongs to, 0 for the error of a query.
CheckOf(issue) ==
    CASE issue = "SchemaMissing" -> 1
      [] issue = "TableMissing" -> 2
      [] issue = "TrackingMissing" -> 3
      [] issue = "Mismatch" -> 4
      [] OTHER -> 0

\* A round of the loop of healthCheck.
HealthRound ==
    /\ run.kind = "healthCheck"
    /\ run.pc = "check"
    /\ run'.kind = "healthCheck"
    /\ run'.k = run.k + 1

\* The entry of unhealthySchemas pushed in this round.
Pushed ==
    run'.unhealthy[Len(run'.unhealthy)]

\* C13: a round of the loop of healthCheck classifies its namespace once,
\* healthy or with one issue; an issue is that of the first check the
\* namespace fails in the order namespace, dummy_table, tracking table,
\* migrations, and no check after the first failing one is evaluated.
C13_FirstFailingCheckOnly ==
    [][HealthRound =>
          LET name == run.schemas[run.k]
              first == FirstFailing(engine[name])
          IN  \/ /\ run'.healthy = Append(run.healthy, name)
                 /\ run'.unhealthy = run.unhealthy
                 /\ first = 0
              \/ /\ run'.healthy = run.healthy
                 /\ Len(run'.unhealthy) = Len(run.unhealthy) + 1
                 /\ SubSeq(run'.unhealthy, 1, Len(run.unhealthy))
                       = run.unhealthy
                 /\ Pushed.schema = name
                 /\ first # 0 => Pushed.checks <= first
                 /\ CheckOf(Pushed.issue) \in 1..3 =>
                       /\ CheckOf(Pushed.issue) = first
                       /\ Pushed.checks = first
                 /\ CheckOf(Pushed.issue) = 4 =>
                       /\ first = 0
                       /\ Pushed.checks = 4]_vars

\* A registered namespace without dummy_table and without the tracking
\* table is reported for dummy_table.
C13_Witness ==
    /\ run.kind = "healthCheck"
    /\ \E j \in DOMAIN run.unhealthy :
          /\ run.unhealthy[j].issue = "TableMissing"
          /\ run.unhealthy[j].checks = 2
          /\ engine[run.unhealthy[j].schema].exists
          /\ ~engine[run.unhealthy[j].schema].tracking

\* C14: a namespace is classified healthy only when the tags of its
\* tracking table are those of the journal, and a namespace that passes the
\* first three checks and lacks exactly one tag of the journal is reported
\* with a mismatch whose missing tags are that tag and whose extra tags are
\* none.
C14_HealthyOnlyIfTagsEqual ==
    [][HealthRound =>
          LET name == run.schemas[run.k]
              ns == engine[name]
              lacks == Range(journal) \ Range(ns.applied)
          IN  /\ run'.healthy # run.healthy =>
                    Range(ns.applied) = Range(journal)
              /\ ( /\ FirstFailing(ns) = 0
                   /\ Cardinality(lacks) = 1
                   /\ Range(ns.applied) \subseteq Range(journal)
                   /\ run'.unhealthy # run.unhealthy
                   /\ CheckOf(Pushed.issue) # 0 ) =>
                    /\ Pushed.issue = "Mismatch"
                    /\ Range(Pushed.missing) = lacks
                    /\ Pushed.extra = <<>>]_vars

\* C26: healthCheck accounts for every row of schema_tracker that it has
\* read exactly once: the rows checked so far are, one for one, in
\* healthySchemas or in unhealthySchemas, a row whose namespace is not in
\* the engine is in unhealthySchemas for the first check, and when the loop
\* is over totalSchemas is the sum of the two lengths whatever queries
\* failed on the way.
C26_EveryEntryOnce ==
    run.kind = "healthCheck" =>
        LET checked == SubSeq(run.schemas, 1, run.k - 1)
            UnhealthyNames ==
                [j \in DOMAIN run.unhealthy |-> run.unhealthy[j].schema]
            Occurrences(s, x) == Cardinality({j \in DOMAIN s : s[j] = x})
        IN  /\ run.k - 1 <= Len(run.schemas)
            /\ Len(run.healthy) + Len(run.unhealthy) = Len(checked)
            /\ \A x \in Range(run.schemas) :
                  Occurrences(run.healthy, x) + Occurrences(UnhealthyNames, x)
                     = Occurrences(checked, x)
            /\ \A x \in Range(checked) :
                  ~engine[x].exists =>
                     \E j \in DOMAIN run.unhealthy :
                        /\ run.unhealthy[j].schema = x
                        /\ run.unhealthy[j].checks = 1
                        /\ run.unhealthy[j].issue
                              \in {"SchemaMissing", "DbError"}
            /\ run.pc = "summary" =>
                  Len(run.schemas) = Len(run.healthy) + Len(run.unhealthy)

\* The query for the first of two rows has failed; the second row has been
\* checked and is healthy.
C26_Witness ==
    /\ run.kind = "healthCheck" /\ run.pc = "summary"
    /\ Len(run.schemas) = 2
    /\ Len(run.unhealthy) = 1
    /\ run.unhealthy[1].schema = run.schemas[1]
    /\ run.unhealthy[1].issue = "DbError"
    /\ run.healthy = <<run.schemas[2]>>

\* C15: when healthCheck has looked for orphaned schemas, its list holds
\* exactly the tenant namespaces of the engine that have no row in
\* schema_tracker.
C15_OrphansComplete ==
    (run.kind = "healthCheck" /\ run.pc = "summary") =>
        run.orphaned = {n \in TenantNames :
                          engine[n].exists /\ n \notin Range(run.schemas)}

\* createTenantSchemaWithMigrations returns: its verification has passed.
ProvisionReturns ==
    /\ run.pc = "verify"
    /\ \/ run'.pc = "register"
       \/ run'.kind = "migrateAll" /\ run'.success = run.success + 1

\* C17: when createTenantSchemaWithMigrations returns for a namespace that
\* was fresh when applyMigrations began, every entry of the journal it read
\* has been executed and recorded in the journal's order and dummy_table is
\* there; and a registered namespace in that state, audited against the
\* same journal, is classified healthy unless a query of the audit fails.
C17_CreatedThenHealthy ==
    [][/\ (ProvisionReturns /\ run.pre = Fresh) =>
             /\ run.migrations # <<>>
             /\ run.appliedCount = Len(run.migrations)
             /\ run.ran = run.migrations
             /\ run.rec = run.migrations
             /\ engine[run.name] = AppliedTo(run.migrations)
             /\ DummyTableEntry \in engine[run.name].tables
       /\ ( /\ HealthRound
            /\ journal # <<>>
            /\ engine[run.schemas[run.k]] = AppliedTo(journal)
            /\ run.impl = "compare" => run.expected = journal ) =>
             \/ run'.healthy = Append(run.healthy, run.schemas[run.k])
             \/ /\ run'.unhealthy # run.unhealthy
                /\ Pushed.issue \in {"DbError", "CheckFailed"}]_vars

\* The audit that compares the tags has classified as healthy a namespace
\* that holds the two entries of the journal.
C17_Witness ==
    /\ run.kind = "healthCheck"
    /\ run.impl = "compare"
    /\ journal = <<1, 2>>
    /\ \E n \in Range(run.healthy) : engine[n] = AppliedTo(journal)

\* The command of the given kind exits in this step.
Exits(kind) ==
    /\ result' # result
    /\ result'.kind = kind

\* A tenant namespace of the engine without a row in schema_tracker.
OrphanExists ==
    \E n \in TenantNames : engine[n].exists /\ n \notin Registered

C25_InvalidNameNoEffect ==
    [][(/\ run.kind \in {"createTenant", "migrateTenant", "dropTenant"}
        /\ validateSchemaName(JsString(run.name)) # "ok")
          => /\ engine' = engine
             /\ schemaTracker' = schemaTracker]_vars

\* The rows of schema_tracker for names other than name.
RowsExcept(tracked, name) ==
    SelectSeq(tracked, LAMBDA x : x # name)

\* C18: drop-tenant leaves every namespace other than the one it is given,
\* public among them, and every row of schema_tracker for another name as
\* they are; when it exits with 0 the namespace it was given and its row
\* are gone.
C18_DropLeavesOthers ==
    [][run.kind = "dropTenant" =>
          /\ \A n \in TenantNames \ {run.name} : engine'[n] = engine[n]
          /\ engine'[PublicName] = engine[PublicName]
          /\ RowsExcept(schemaTracker', run.name)
                = RowsExcept(schemaTracker, run.name)
          /\ (Exits("dropTenant") /\ result'.exit = 0) =>
                /\ run.name \in DOMAIN engine => ~engine'[run.name].exists
                /\ run.name \notin Range(schemaTracker')]_vars

\* C27: when no command is running (and public has not been dropped), the
\* names of schema_tracker are the tenant namespaces of the engine.
C27_RegistryEqualsNamespaces ==
    (run.kind = "none" /\ TrackerUp) =>
        Registered = {n \in TenantNames : engine[n].exists}

\* No two rows of schema_tracker hold the same name.
NoDuplicates(tracked) ==
    \A a, b \in DOMAIN tracked : a # b => tracked[a] # tracked[b]

\* The command in run takes a step (the processor does not turn).
RunSteps ==
    /\ parked' = parked
    /\ run' # run

\* C30: when the create-tenant commands that ran at the same time have all
\* exited, every name of schema_tracker is that of a namespace that exists
\* and holds dummy_table.
C30_RegisteredNamespaceSurvives ==
    (run.kind = "none" /\ parked.kind = "none") =>
        \A n \in Registered :
            /\ engine[n].exists
            /\ DummyTableEntry \in engine[n].tables

\* C29: no tag is recorded twice in the tracking table of a namespace,
\* whatever the interleaving of the calls of applyMigrations on it.
C29_RecordedAtMostOnce ==
    \A n \in TenantNames :
        \A a, b \in DOMAIN engine[n].applied :
            a # b => engine[n].applied[a] # engine[n].applied[b]

InitRLS ==
    InitA /\ InitB /\ InitN

SpecRLS ==
    InitRLS /\ [][NextA]_vars

InitValidate ==
    InitA /\ InitB /\ InitNames

SpecNames ==
    InitValidate /\ [][NextNames]_vars

InitFleet ==
    InitA /\ InitB /\ InitN

SpecFleet ==
    InitFleet /\ [][NextFleet]_vars

\* The database after drizzle-kit has generated the first migration and
\* create-tenant t1 has succeeded.
InitProvisioned ==
    /\ engine = [n \in Namespaces |->
                   IF n = PublicName THEN CreateSchemaIfNotExists(Absent)
                   ELSE IF n = <<"t", "1">> THEN AppliedTo(<<1>>)
                   ELSE Absent]
    /\ schemaTracker = << <<"t", "1">> >>
    /\ journal = <<1>>
    /\ folder = {JournalFile, 1}
    /\ run = NoRun
    /\ parked = NoRun
    /\ result = CreatedFirst

InitRace ==
    InitA /\ (InitB \/ InitProvisioned) /\ InitN

SpecRace ==
    InitRace /\ [][NextRace]_vars

InitMigrateRace ==
    InitA /\ InitProvisioned /\ InitN

SpecMigrateRace ==
    InitMigrateRace /\ [][NextMigrateRace]_vars

InitTenants ==
    InitA /\ InitB /\ InitN

SpecTenants ==
    InitTenants /\ [][NextB]_vars

====
